---------------------------- MODULE Spec2Model ----------------------------
(***************************************************************************)
(* superqt: the font-icon store (QFontIconStore), the font-icon engine     *)
(* (_QFontIconEngine / QFontIcon / IconOptions) and the eliding label      *)
(* (QElidingLabel), modelled as state machines.                            *)
(*                                                                         *)
(* A Python str is a sequence of Unicode code points (integers), so that   *)
(* split, lower, replace, ord and isidentifier are computed, not assumed.  *)
(*   "f" = <<102>>   "p" = <<112>>   "f.a" = <<102, 46, 97>>               *)
(***************************************************************************)
EXTENDS Integers, Sequences, FiniteSets, TLC

VARIABLES
    LOADED_KEYS,   \* QFontIconStore._LOADED_KEYS : prefix -> <<family, style>>
    CHARMAPS,      \* QFontIconStore._CHARMAPS    : <<family, style>> -> charmap
    __instance,    \* QFontIconStore.__instance is not None
    qapp,          \* QApplication.instance() is not None
    heap,          \* the QFontIcon the caller holds, its engine and its clone
    label,         \* the QElidingLabel
    ret,           \* the last call made and how it ended
    hist           \* history: what the caller passed (read by the claims only)

vars == <<LOADED_KEYS, CHARMAPS, __instance, qapp, heap, label, ret, hist>>

-----------------------------------------------------------------------------
(* Bounds of the model.                                                    *)

\* longest glyph part (the text after the first '.') of a glyph key
MaxGlyphLen == 2
\* most words in a key of icon()'s states
MaxWords == 2
\* most addState calls made on one icon
MaxAddState == 2
\* longest text given to the label
MaxTextLen == 3
\* largest width and height the label is given
MaxWidth == 5
MaxHeight == 4

-----------------------------------------------------------------------------
(* Python str operations, on sequences of code points.                     *)

Dot == 46
Underscore == 95
Dash == 45
Space == 32

EmptyMap == [k \in {} |-> <<>>]

\* every sequence over S of length 0..n
SeqsUpTo(S, n) == UNION {[1..k -> S] : k \in 0..n}

\* position of the first occurrence of c in s, 0 when there is none
FirstIndex(s, c) ==
    IF \E i \in 1..Len(s) : s[i] = c
    THEN CHOOSE i \in 1..Len(s) : s[i] = c /\ \A j \in 1..(i - 1) : s[j] # c
    ELSE 0

\* s.split(".", maxsplit=1): one part when s has no '.', else two
SplitDot(s) ==
    LET i == FirstIndex(s, Dot)
    IN  IF i = 0 THEN <<s>>
        ELSE <<SubSeq(s, 1, i - 1), SubSeq(s, i + 1, Len(s))>>

\* s.split(".", maxsplit=1)[0]
SplitHead(s) == SplitDot(s)[1]

\* s.split(".", maxsplit=1)[-1]
SplitLast(s) == SplitDot(s)[Len(SplitDot(s))]


-----------------------------------------------------------------------------
(* _ensure_identifier and the str predicates it uses.  The character       *)
(* classes are Unicode's, restricted to ASCII and Latin Extended-A, the    *)
(* ranges the model draws characters from; U+F000.. (private use area,     *)
(* where icon fonts put their glyphs) is in no identifier class.           *)

IsDigit(c) == c \in 48..57

IsIdStart(c) == c \in (65..90) \cup (97..122) \cup {Underscore} \cup (256..383)

IsIdContinue(c) == IsIdStart(c) \/ IsDigit(c)

\* str.isidentifier
isidentifier(name) ==
    /\ Len(name) > 0
    /\ IsIdStart(name[1])
    /\ \A i \in 2..Len(name) : IsIdContinue(name[i])

\* keyword.iskeyword, for the keywords of length two:  as if in is or
iskeyword(name) ==
    name \in {<<97, 115>>, <<105, 102>>, <<105, 110>>, <<105, 115>>, <<111, 114>>}

\* name.replace("-", "_").replace(" ", "_")
ReplaceDashSpace(name) ==
    [i \in 1..Len(name) |-> IF name[i] \in {Dash, Space} THEN Underscore ELSE name[i]]

\* _ensure_identifier(name): [exc, val]
_ensure_identifier(name) ==
    IF name = <<>> THEN [exc |-> "none", val |-> <<>>]
    ELSE
        LET n1 == IF IsDigit(name[1]) THEN <<Underscore>> \o name ELSE name
            n2 == IF iskeyword(n1) THEN n1 \o <<Underscore>> ELSE n1
            n3 == ReplaceDashSpace(n2)
        IN  IF isidentifier(n3)
            THEN [exc |-> "none", val |-> n3]
            ELSE [exc |-> "AssertionError", val |-> <<>>]

-----------------------------------------------------------------------------
(* The environment of the store: font files on disk, what QFontDatabase    *)
(* reports for them, and the font-class plugins.                           *)

\* Path(filepath).exists()
PathExists(filepath) == filepath # "missing.ttf"

\* QFontDatabase.addApplicationFont(filepath) < 0
LoadFails(filepath) == filepath \in {"bad.ttf", "q.ttf"}

\* QFontDatabase.applicationFontFamilies(fontId)
applicationFontFamilies(filepath) ==
    CASE filepath \in {"a.ttf", "b.ttf"} -> <<"FA">>
      [] filepath = "c.ttf" -> <<"MDI">>
      [] filepath = "p.ttf" -> <<"PL">>
      [] OTHER -> <<>>

\* QFd.styles(family)
styles(family) ==
    CASE family = "FA" -> <<"Regular", "Solid">>
      [] family = "PL" -> <<"Regular">>
      [] OTHER -> <<>>

\* charmaps a caller passes to addFont: None, {} and two dicts; a value may
\* carry the font key ("f.") or not ("")
NoCharmap == [none |-> TRUE, map |-> EmptyMap]
EmptyCharmap == [none |-> FALSE, map |-> EmptyMap]
CmA ==
    [none |-> FALSE,
     map |-> (<<97>> :> <<102, 46, 61440>>) @@ (<<Underscore, 49>> :> <<61441>>)
             @@ (<<105, 102, Underscore>> :> <<61442>>)
             @@ (<<97, Underscore>> :> <<102, 46, 61443, 46, 97>>)]
CmB ==
    [none |-> FALSE,
     map |-> (<<97>> :> <<61450>>) @@ (<<61440>> :> <<61451>>)]
CmP ==
    [none |-> FALSE, map |-> (<<97>> :> <<112, 46, 61460>>)]

\* _plugins.get_font_class(key): the font classes installed as plugins,
\* "p" (a loadable font) and "q" (a font file Qt cannot load)
PluginKeys == {<<112>>, <<113>>}
get_font_class(key) ==
    IF key = <<112>>
    THEN [font_file |-> "p.ttf", charmap |-> CmP]
    ELSE [font_file |-> "q.ttf", charmap |-> CmP]

-----------------------------------------------------------------------------
(* QFontIconStore.  Each classmethod is an operator from the store it     *)
(* finds (LK = _LOADED_KEYS, CM = _CHARMAPS; app = QApplication.instance() *)
(* is not None) to an outcome [lk, cm, exc, val]: the store it leaves, the *)
(* exception raised ("none" when it returns) and the value returned        *)
(* (<<>> for None or when it raises).                                      *)

Outcome(LK, CM, exc, val) == [lk |-> LK, cm |-> CM, exc |-> exc, val |-> val]

\* addFont without its first assertion
addFont_noPrefixCheck(LK, CM, app, filepath, prefix, charmap) ==
    IF ~PathExists(filepath) \/ ~app THEN Outcome(LK, CM, "AssertionError", <<>>)
    ELSE IF LoadFails(filepath) \/ applicationFontFamilies(filepath) = <<>>
    THEN Outcome(LK, CM, "none", <<>>)
    ELSE
        LET family == applicationFontFamilies(filepath)[1]
            sts == styles(family)
            fs == <<family, IF sts # <<>> THEN sts[Len(sts)] ELSE "">>
        IN  Outcome((prefix :> fs) @@ LK,
                    IF ~charmap.none /\ DOMAIN charmap.map # {}
                    THEN (fs :> charmap.map) @@ CM
                    ELSE CM,
                    "none", fs)

addFont(LK, CM, app, filepath, prefix, charmap) ==
    IF prefix \in DOMAIN LK THEN Outcome(LK, CM, "AssertionError", <<>>)
    ELSE IF ~PathExists(filepath) THEN Outcome(LK, CM, "AssertionError", <<>>)
    ELSE IF ~app THEN Outcome(LK, CM, "AssertionError", <<>>)
    ELSE IF LoadFails(filepath) THEN Outcome(LK, CM, "none", <<>>)
    ELSE IF applicationFontFamilies(filepath) = <<>> THEN Outcome(LK, CM, "none", <<>>)
    ELSE
        LET family == applicationFontFamilies(filepath)[1]
            sts == styles(family)
            style == IF sts # <<>> THEN sts[Len(sts)] ELSE ""
            fs == <<family, style>>
        IN  Outcome((prefix :> fs) @@ LK,
                    IF ~charmap.none /\ DOMAIN charmap.map # {}
                    THEN (fs :> charmap.map) @@ CM
                    ELSE CM,
                    "none", fs)

_key2family(LK, CM, app, key) ==
    LET k == SplitHead(key)
    IN  IF k \in DOMAIN LK THEN Outcome(LK, CM, "none", LK[k])
        ELSE IF k \notin PluginKeys THEN Outcome(LK, CM, "ValueError", <<>>)
        ELSE
            LET font_cls == get_font_class(k)
                Loaded(result) ==
                    IF result.exc # "none" \/ result.val = <<>>
                    THEN Outcome(LK, CM, "ValueError", <<>>)
                    ELSE Outcome((k :> result.val) @@ result.lk, result.cm,
                                 "none", result.val)
            IN  Loaded(addFont(LK, CM, app, font_cls.font_file, k, font_cls.charmap))

\* [exc, val]
_ensure_char(CM, char, family, style) ==
    IF Len(char) = 1 /\ char[1] > 256 THEN [exc |-> "none", val |-> char]
    ELSE IF <<family, style>> \notin DOMAIN CM THEN [exc |-> "KeyError", val |-> <<>>]
    ELSE
        LET charmap == CM[<<family, style>>]
            ident == _ensure_identifier(char)
        IN  IF char \in DOMAIN charmap
            THEN [exc |-> "none", val |-> SplitLast(charmap[char])]
            ELSE IF ident.exc # "none" THEN [exc |-> ident.exc, val |-> <<>>]
            ELSE IF ident.val \in DOMAIN charmap
            THEN [exc |-> "none", val |-> SplitLast(charmap[ident.val])]
            ELSE [exc |-> "ValueError", val |-> <<>>]

\* val = <<char, family, style>>
key2glyph(LK, CM, app, glyph_key) ==
    LET parts == SplitDot(glyph_key)
        Glyph(fam, ch) ==
            Outcome(fam.lk, fam.cm, ch.exc,
                    IF ch.exc = "none" THEN <<ch.val, fam.val[1], fam.val[2]>>
                    ELSE <<>>)
        Family(fam) ==
            IF fam.exc # "none" THEN fam
            ELSE Glyph(fam, _ensure_char(fam.cm, parts[2], fam.val[1], fam.val[2]))
    IN  IF Len(parts) # 2 THEN Outcome(LK, CM, "ValueError", <<>>)
        ELSE Family(_key2family(LK, CM, app, parts[1]))

\* val = <<family, style>> of the QFont made
font(LK, CM, app, font_prefix) ==
    LET parts == SplitDot(font_prefix)
    IN  IF Len(parts) # 2 THEN Outcome(LK, CM, "ValueError", <<>>)
        ELSE _key2family(LK, CM, app, parts[1])

-----------------------------------------------------------------------------
(* IconOptions, QIcon.State / QIcon.Mode and the _states table.            *)
(* An Optional value is a sequence: None is <<>>, a value v is <<v>>.      *)
(* scale_factor is in thousandths.                                         *)

None == <<>>
Some(v) == <<v>>

DEFAULT_SCALING_FACTOR == 875
DEFAULT_OPACITY == 1

States == {"Off", "On"}
Modes == {"Normal", "Active", "Selected", "Disabled"}
Fields == {"glyph_key", "scale_factor", "color", "opacity", "animation", "transform"}

IconOptions(glyph_key, scale_factor, color, opacity, animation, transform) ==
    [glyph_key |-> glyph_key, scale_factor |-> scale_factor, color |-> color,
     opacity |-> opacity, animation |-> animation, transform |-> transform]

\* IconOptions._defaults(): IconOptions("")
_defaults ==
    IconOptions(Some(<<>>), Some(DEFAULT_SCALING_FACTOR), None,
                Some(DEFAULT_OPACITY), None, None)

\* IconOptions._from_kwargs(kwargs, defaults); defaults is Optional
_from_kwargs(kwargs, defaults) ==
    LET d == IF defaults = None THEN _defaults ELSE defaults[1]
    IN  [f \in Fields |-> IF kwargs[f] = None THEN d[f] ELSE kwargs[f]]

\* the words of the state keys:  on off normal active selected disabled
W_on == <<111, 110>>
W_off == <<111, 102, 102>>
W_normal == <<110, 111, 114, 109, 97, 108>>
W_active == <<97, 99, 116, 105, 118, 101>>
W_selected == <<115, 101, 108, 101, 99, 116, 101, 100>>
W_disabled == <<100, 105, 115, 97, 98, 108, 101, 100>>

_DEFAULT_STATE == <<"Off", "Normal">>

\* _states with one entry mistyped: off_active given State.On
_states_mistyped ==
    ({W_on} :> <<"On", "Normal">>)
    @@ ({W_off} :> _DEFAULT_STATE)
    @@ ({W_normal} :> _DEFAULT_STATE)
    @@ ({W_active} :> <<"Off", "Active">>)
    @@ ({W_selected} :> <<"Off", "Selected">>)
    @@ ({W_disabled} :> <<"Off", "Disabled">>)
    @@ ({W_on, W_normal} :> <<"On", "Normal">>)
    @@ ({W_on, W_active} :> <<"On", "Active">>)
    @@ ({W_on, W_selected} :> <<"On", "Selected">>)
    @@ ({W_on, W_disabled} :> <<"On", "Disabled">>)
    @@ ({W_off, W_normal} :> _DEFAULT_STATE)
    @@ ({W_off, W_active} :> <<"On", "Active">>)
    @@ ({W_off, W_selected} :> <<"Off", "Selected">>)
    @@ ({W_off, W_disabled} :> <<"Off", "Disabled">>)

_states ==
    ({W_on} :> <<"On", "Normal">>)
    @@ ({W_off} :> _DEFAULT_STATE)
    @@ ({W_normal} :> _DEFAULT_STATE)
    @@ ({W_active} :> <<"Off", "Active">>)
    @@ ({W_selected} :> <<"Off", "Selected">>)
    @@ ({W_disabled} :> <<"Off", "Disabled">>)
    @@ ({W_on, W_normal} :> <<"On", "Normal">>)
    @@ ({W_on, W_active} :> <<"On", "Active">>)
    @@ ({W_on, W_selected} :> <<"On", "Selected">>)
    @@ ({W_on, W_disabled} :> <<"On", "Disabled">>)
    @@ ({W_off, W_normal} :> _DEFAULT_STATE)
    @@ ({W_off, W_active} :> <<"Off", "Active">>)
    @@ ({W_off, W_selected} :> <<"Off", "Selected">>)
    @@ ({W_off, W_disabled} :> <<"Off", "Disabled">>)

\* str.lower, on ASCII
lower(s) == [i \in 1..Len(s) |-> IF s[i] \in 65..90 THEN s[i] + 32 ELSE s[i]]

\* s.split(sep): the list of the parts of s between the occurrences of sep
RECURSIVE split(_, _)
split(s, sep) ==
    LET i == FirstIndex(s, sep)
    IN  IF i = 0 THEN <<s>>
        ELSE <<SubSeq(s, 1, i - 1)>> \o split(SubSeq(s, i + 1, Len(s)), sep)

\* frozenset(kw.lower().split("_"))
StateKeySet(kw) ==
    LET parts == split(lower(kw), Underscore)
    IN  {parts[i] : i \in 1..Len(parts)}

-----------------------------------------------------------------------------
(* _QFontIconEngine and QFontIcon.  Engines, their _opts dicts and the     *)
(* IconOptions objects are mutable and can be shared, so they live in a    *)
(* heap H:                                                                 *)
(*   H.engines            the engines that exist ("icon": the engine of    *)
(*                        the QFontIcon; "clone": the one clone() made)    *)
(*   H.default_opts[e]    engine e's _default_opts (Optional IconOptions)  *)
(*   H._opts[e][state]    engine e's _opts: the id of the inner dict held  *)
(*                        for state, None when the key is absent           *)
(*   H.dicts[id][mode]    the inner dicts, each Optional; id <<e, state>>  *)
(*                        is the dict engine e created for state           *)

Engines == {"icon", "clone"}
DictIds == Engines \X States

EmptyHeap ==
    [engines |-> {},
     default_opts |-> [e \in Engines |-> None],
     _opts |-> [e \in Engines |-> [s \in States |-> None]],
     dicts |-> [id \in DictIds |-> None]]

\* _QFontIconEngine.__init__(options), for the engine of a new QFontIcon
QFontIcon(options) ==
    [EmptyHeap EXCEPT !.engines = {"icon"}, !.default_opts["icon"] = Some(options)]

\* self._opts[state] on the DefaultDict(dict): a missing key is inserted
\* with a new empty dict
getitem(H, e, state) ==
    IF H._opts[e][state] # None THEN H
    ELSE [H EXCEPT !._opts[e][state] = Some(<<e, state>>),
                   !.dicts[<<e, state>>] = Some([m \in Modes |-> None])]

\* the keyword parameters of addState and of icon as the signature binds
\* them (the two signatures give the same defaults): a call is [given, val],
\* the keyword arguments the caller gives and their values; a parameter not
\* given takes the default of the signature
SignatureDefaults ==
    [glyph_key |-> None, scale_factor |-> Some(DEFAULT_SCALING_FACTOR),
     color |-> None, opacity |-> Some(DEFAULT_OPACITY), animation |-> None,
     transform |-> None]

Bind(call) ==
    [f \in Fields |-> IF f \in call.given THEN call.val[f] ELSE SignatureDefaults[f]]

\* QFontIcon.addState(state, mode, **call)
addState(H, state, mode, call) ==
    LET opts == _from_kwargs(Bind(call), H.default_opts["icon"])
        H1 == getitem(H, "icon", state)
        id == H1._opts["icon"][state][1]
    IN  [H1 EXCEPT !.dicts[id] = Some([@[1] EXCEPT ![mode] = Some(opts)])]

IconOutcome(LK, CM, exc, H, made) ==
    [lk |-> LK, cm |-> CM, exc |-> exc, val |-> H, made |-> made]

\* the loop of icon() over states.items(): [exc, H]
RECURSIVE AddStates(_, _)
AddStates(H, states) ==
    IF states = <<>> THEN [exc |-> "none", H |-> H]
    ELSE
        LET kw == states[1].kw
            ks == StateKeySet(kw)
        IN  IF ks \notin DOMAIN _states THEN [exc |-> "ValueError", H |-> H]
            ELSE AddStates(addState(H, _states[ks][1], _states[ks][2],
                                    states[1].options),
                           Tail(states))

\* icon() without its first line, the check of glyph_key
icon_unchecked(LK, CM, app, glyph_key, call, states) ==
    LET kwargs == [Bind(call) EXCEPT !["glyph_key"] = Some(glyph_key)]
        Built(r) ==
            IF r.exc # "none" THEN IconOutcome(LK, CM, r.exc, EmptyHeap, TRUE)
            ELSE IconOutcome(LK, CM, "none", r.H, TRUE)
    IN  Built(AddStates(QFontIcon(_from_kwargs(kwargs, None)), states))

\* QFontIconStore.icon(glyph_key, **call, states=states); val is the heap
\* that holds the icon returned, made tells whether a QFontIcon was built
icon(LK, CM, app, glyph_key, call, states) ==
    LET kwargs == [Bind(call) EXCEPT !["glyph_key"] = Some(glyph_key)]
        default_opts == _from_kwargs(kwargs, None)
        Built(g, r) ==
            IF r.exc # "none"
            THEN IconOutcome(g.lk, g.cm, r.exc, EmptyHeap, TRUE)
            ELSE IconOutcome(g.lk, g.cm, "none", r.H, TRUE)
        Checked(g) ==
            IF g.exc # "none" THEN IconOutcome(g.lk, g.cm, g.exc, EmptyHeap, FALSE)
            ELSE Built(g, AddStates(QFontIcon(default_opts), states))
    IN  Checked(key2glyph(LK, CM, app, glyph_key))

-----------------------------------------------------------------------------
(* Rendering.                                                              *)

\* the role dict of _get_opts: QIcon.Mode -> QPalette.ColorGroup
role(mode) ==
    CASE mode = "Disabled" -> "Disabled"
      [] mode = "Selected" -> "Current"
      [] mode = "Normal" -> "Normal"
      [] mode = "Active" -> "Active"

\* QApplication.palette().color(group, QPalette.ButtonText): in Qt Normal is
\* Active, and Current is the palette's current group, Active for the
\* application palette
PaletteColor(group) ==
    IF group = "Disabled" THEN "palette.Disabled.ButtonText"
    ELSE "palette.Active.ButtonText"

\* _QFontIconEngine._get_opts(state, mode) of engine e: [exc, H, val]
_get_opts(H, e, state, mode) ==
    LET H1 == getitem(H, e, state)
        id == H1._opts[e][state][1]
        slot == H1.dicts[id][1][mode]
        opts == IF slot # None THEN slot ELSE H1.default_opts[e]
    IN  IF opts = None THEN [exc |-> "AttributeError", H |-> H1, val |-> None]
        ELSE IF opts[1].color # None THEN [exc |-> "none", H |-> H1, val |-> opts]
        ELSE
            LET set == [opts[1] EXCEPT !.color = Some(PaletteColor(role(mode)))]
            IN  [exc |-> "none",
                 H |-> IF slot # None
                       THEN [H1 EXCEPT !.dicts[id] =
                                Some([@[1] EXCEPT ![mode] = Some(set)])]
                       ELSE [H1 EXCEPT !.default_opts[e] = Some(set)],
                 val |-> Some(set)]

NothingDrawn == [char |-> <<>>, family |-> "", style |-> "", scale_factor |-> None,
                 color |-> None, opacity |-> None, animation |-> None,
                 transform |-> None]

\* _QFontIconEngine.paint(painter, rect, mode, state) of engine e:
\* [lk, cm, exc, H, drawn]; drawn is what reaches the painter (the font's
\* pixel size is round(rect.height() * scale_factor): the factor is kept)
paint(H, LK, CM, app, e, mode, state) ==
    LET Draw(o, opts, g) ==
            IF g.exc # "none"
            THEN [lk |-> g.lk, cm |-> g.cm, exc |-> g.exc, H |-> o.H,
                  drawn |-> NothingDrawn]
            ELSE [lk |-> g.lk, cm |-> g.cm, exc |-> "none", H |-> o.H,
                  drawn |-> [char |-> g.val[1], family |-> g.val[2],
                             style |-> g.val[3],
                             scale_factor |-> opts.scale_factor,
                             color |-> opts.color, opacity |-> opts.opacity,
                             animation |-> opts.animation,
                             transform |-> opts.transform]]
        Opts(o) ==
            IF o.exc # "none"
            THEN [lk |-> LK, cm |-> CM, exc |-> o.exc, H |-> o.H,
                  drawn |-> NothingDrawn]
            ELSE Draw(o, o.val[1], key2glyph(LK, CM, app, o.val[1].glyph_key[1]))
    IN  Opts(_get_opts(H, e, state, mode))

\* _QFontIconEngine.clone() of the icon's engine: the new engine has no
\* _default_opts, and its _opts is a shallow copy (the inner dicts are shared)
clone(H) ==
    [H EXCEPT !.engines = @ \cup {"clone"},
              !.default_opts["clone"] = None,
              !._opts["clone"] = H._opts["icon"],
              !.dicts = [id \in DictIds |-> IF id[1] = "clone" THEN None ELSE @[id]]]

-----------------------------------------------------------------------------
(* QElidingLabel.  The font is monospaced: every character, the ellipsis   *)
(* included, is one unit wide and a line is LineHeight units high.  A      *)
(* label L is [_text, _elide_mode, wordWrap, text, width, height], text    *)
(* being what the QLabel displays.                                         *)

ELIDE_CHAR == 8230
LineHeight == 2

ElideModes == {"ElideLeft", "ElideRight", "ElideMiddle", "ElideNone"}

\* Python's s[n:] and s[:n], n of either sign
SliceFrom(s, n) ==
    LET k == IF n < 0 THEN (IF Len(s) + n < 0 THEN 0 ELSE Len(s) + n)
             ELSE (IF n > Len(s) THEN Len(s) ELSE n)
    IN  SubSeq(s, k + 1, Len(s))
SliceTo(s, n) ==
    LET k == IF n < 0 THEN (IF Len(s) + n < 0 THEN 0 ELSE Len(s) + n)
             ELSE (IF n > Len(s) THEN Len(s) ELSE n)
    IN  SubSeq(s, 1, k)

\* "".join(lines)
RECURSIVE join(_)
join(lines) == IF lines = <<>> THEN <<>> ELSE lines[1] \o join(Tail(lines))

\* QFontMetrics.elidedText(text, mode, width): the text when it fits or the
\* mode is ElideNone, nothing when not even the ellipsis fits, else the
\* text cut to width with the ellipsis at the side the mode names
elidedText(text, mode, width) ==
    IF mode = "ElideNone" \/ Len(text) <= width THEN text
    ELSE IF width < 1 THEN <<>>
    ELSE
        LET k == width - 1
        IN  CASE mode = "ElideRight" -> SliceTo(text, k) \o <<ELIDE_CHAR>>
              [] mode = "ElideLeft" -> <<ELIDE_CHAR>> \o SliceFrom(text, Len(text) - k)
              [] mode = "ElideMiddle" ->
                    SliceTo(text, (k + 1) \div 2) \o <<ELIDE_CHAR>>
                    \o SliceFrom(text, Len(text) - (k \div 2))

\* QElidingLabel.wrapText(text, width, font): QTextLayout gives each line
\* the characters that fit in width (at least one), and ends a line after
\* the last space among them when the text goes on
RECURSIVE wrapText(_, _)
wrapText(text, width) ==
    IF text = <<>> THEN <<>>
    ELSE
        LET w == IF width < 1 THEN 1 ELSE width
            sp == {i \in 1..w : i < Len(text) /\ text[i] = Space}
            n == IF Len(text) <= w THEN Len(text)
                 ELSE IF sp # {} THEN CHOOSE i \in sp : \A j \in sp : j <= i
                 ELSE w
        IN  <<SubSeq(text, 1, n)>> \o wrapText(SubSeq(text, n + 1, Len(text)), width)

\* QElidingLabel._wrappedText()
_wrappedText(L) == wrapText(L._text, L.width)

\* text[:nlines] + [last_line] in _elidedText: the wrapped lines kept whole
\* and the elided last line, w being the width the elision is given
_elidedLines(L, w) ==
    LET Lines(nlines, text) ==
            SliceTo(text, nlines)
            \o <<elidedText(join(SliceFrom(text, nlines)), L._elide_mode, w)>>
    IN  Lines((L.height \div LineHeight) - 1, _wrappedText(L))

\* QElidingLabel._elidedText(width); width is Optional (None by default)
_elidedText(L, width) ==
    LET w == (IF width = None \/ width = Some(0) THEN L.width ELSE width[1]) - 2
    IN  IF ~L.wordWrap THEN elidedText(L._text, L._elide_mode, w)
        ELSE join(_elidedLines(L, w))

\* QElidingLabel.__init__(*args): args is the positional arguments, each
\* [isStr, val]; QLabel.__init__ displays a text argument as it is
QElidingLabel(args, width, height) ==
    [_text |-> IF args # <<>> /\ args[1].isStr THEN args[1].val ELSE <<>>,
     _elide_mode |-> "ElideRight",
     wordWrap |-> FALSE,
     text |-> IF args # <<>> /\ args[1].isStr THEN args[1].val ELSE <<>>,
     width |-> width, height |-> height]

\* setElideMode that keeps the elided text as the label's text
setElideMode_keepsElided(L, mode) ==
    LET L1 == [L EXCEPT !._elide_mode = mode]
    IN  [L1 EXCEPT !.text = _elidedText(L1, None), !._text = _elidedText(L1, None)]

setElideMode(L, mode) ==
    LET L1 == [L EXCEPT !._elide_mode = mode]
    IN  [L1 EXCEPT !.text = _elidedText(L1, None)]

fullText(L) == L._text

setText(L, txt) ==
    LET L1 == [L EXCEPT !._text = txt]
    IN  [L1 EXCEPT !.text = _elidedText(L1, None)]

\* QElidingLabel.resizeEvent(rEvent): Qt has given the widget the size of
\* the event before it delivers it
resizeEvent(L, size) ==
    LET L1 == [L EXCEPT !.width = size[1], !.height = size[2]]
    IN  [L1 EXCEPT !.text = _elidedText(L1, Some(size[1]))]

setWordWrap(L, wrap) ==
    LET L1 == [L EXCEPT !.wordWrap = wrap]
    IN  [L1 EXCEPT !.text = _elidedText(L1, None)]

-----------------------------------------------------------------------------
(* QFontIconStore.clear, setTextIcon and instance.                         *)

\* clear() that forgets _CHARMAPS
clear_keysOnly(LK, CM) == Outcome(EmptyMap, CM, "none", <<>>)

clear(LK, CM) == Outcome(EmptyMap, EmptyMap, "none", <<>>)

\* val = <<glyph, family, style>>: the text and the font the widget is given
setTextIcon(LK, CM, app, hasSetText, glyph_key) ==
    IF ~hasSetText THEN Outcome(LK, CM, "TypeError", <<>>)
    ELSE
        LET SetFont(g, f) ==
                Outcome(f.lk, f.cm, f.exc,
                        IF f.exc = "none" THEN <<g.val[1]>> \o f.val ELSE <<>>)
            Glyph(g) ==
                IF g.exc # "none" THEN g
                ELSE SetFont(g, font(g.lk, g.cm, app, glyph_key))
        IN  Glyph(key2glyph(LK, CM, app, glyph_key))

-----------------------------------------------------------------------------
(* The inputs the callers draw from.                                       *)

FontFiles == {"a.ttf", "b.ttf", "c.ttf", "bad.ttf", "empty.ttf", "missing.ttf"}
Charmaps == {NoCharmap, EmptyCharmap, CmA, CmB}

\* "f" (registered by addFont only) and "p" (also a plugin's key)
PrefixF == <<102>>
PrefixP == <<112>>

\* f.a  f  f.!  f.<U+F000>  p.a  p.b  q.a  x.a  .a
StoreKeys ==
    {<<102, Dot, 97>>, <<102>>, <<102, Dot, 33>>, <<102, Dot, 61440>>,
     <<112, Dot, 97>>, <<112, Dot, 98>>, <<113, Dot, 97>>, <<120, Dot, 97>>,
     <<Dot, 97>>}

\* the characters of glyph parts:  a f i 1 - space ! . _  U+0100  U+F000
GlyphChars == {97, 102, 105, 49, Dash, Space, 33, Dot, Underscore, 256, 61440}
GlyphKeys == {PrefixF \o <<Dot>> \o g : g \in SeqsUpTo(GlyphChars, MaxGlyphLen)}

\* the words of state keys: the six of _states, some in upper case, the
\* empty word and a word _states does not know
StateWords ==
    {W_on, W_off, W_normal, W_active, W_selected, W_disabled,
     <<79, 78>>, <<79, 102, 102>>, <<65, 99, 116, 105, 118, 101>>, <<>>, <<120>>}

\* "_".join(words)
RECURSIVE joinWords(_)
joinWords(words) ==
    IF words = <<>> THEN <<>>
    ELSE IF Len(words) = 1 THEN words[1]
    ELSE words[1] \o <<Underscore>> \o joinWords(Tail(words))

StateKeys == {joinWords(ws) : ws \in SeqsUpTo(StateWords, MaxWords)}

\* keyword arguments of icon() and addState(): the values a caller gives
GivenVal ==
    [glyph_key |-> Some(<<102, Dot, 49>>), scale_factor |-> Some(500),
     color |-> Some("red"), opacity |-> Some(0), animation |-> Some("spin"),
     transform |-> Some("rot90")]
Call(given) == [given |-> given, val |-> GivenVal]

\* the same with a glyph key under a prefix that no font and no plugin has
GivenUnknown == [GivenVal EXCEPT !.glyph_key = Some(<<120, Dot, 97>>)]
CallUnknown(given) == [given |-> given, val |-> GivenUnknown]

Pairs == States \X Modes

Texts == SeqsUpTo({97, Space}, MaxTextLen)
Sizes == (0..MaxWidth) \X (0..MaxHeight)
\* QElidingLabel(), QElidingLabel(text), QElidingLabel(parent),
\* QElidingLabel(text, parent)
CtorArgs ==
    {<<>>, <<[isStr |-> FALSE, val |-> <<>>]>>}
    \cup {<<[isStr |-> TRUE, val |-> t]>> : t \in Texts}
    \cup {<<[isStr |-> TRUE, val |-> t], [isStr |-> FALSE, val |-> <<>>]>> : t \in Texts}

-----------------------------------------------------------------------------
(* The state machine.                                                      *)

NoLabel ==
    [_text |-> <<>>, _elide_mode |-> "ElideRight", wordWrap |-> FALSE,
     text |-> <<>>, width |-> 0, height |-> 0]

NoHist ==
    [ctor |-> None, passed |-> [pr \in Pairs |-> None], nAdd |-> 0,
     lastSet |-> <<>>, cleared |-> FALSE]

Ret(op, key, file, exc, val) ==
    [op |-> op, key |-> key, file |-> file, exc |-> exc, val |-> val]

Init ==
    /\ LOADED_KEYS = EmptyMap
    /\ CHARMAPS = EmptyMap
    /\ __instance = FALSE
    /\ qapp = FALSE
    /\ heap = EmptyHeap
    /\ label = NoLabel
    /\ ret = Ret("init", <<>>, "", "none", <<>>)
    /\ hist = NoHist

DoAddFont(files, prefixes, charmaps) ==
    \E filepath \in files, prefix \in prefixes, charmap \in charmaps :
        \E o \in {addFont(LOADED_KEYS, CHARMAPS, qapp, filepath, prefix, charmap)} :
            /\ LOADED_KEYS' = o.lk
            /\ CHARMAPS' = o.cm
            /\ ret' = [op |-> "addFont", key |-> prefix, file |-> filepath,
                       exc |-> o.exc, val |-> o.val, charmap |-> charmap]
            /\ UNCHANGED <<__instance, qapp, heap, label, hist>>

DoClear ==
    \E o \in {clear(LOADED_KEYS, CHARMAPS)} :
        /\ LOADED_KEYS' = o.lk
        /\ CHARMAPS' = o.cm
        /\ ret' = [op |-> "clear", key |-> <<>>, file |-> "", exc |-> o.exc,
                   val |-> o.val, dropped |-> DOMAIN LOADED_KEYS]
        /\ hist' = [hist EXCEPT !.cleared = @ \/ "icon" \in heap.engines]
        /\ UNCHANGED <<__instance, qapp, heap, label>>

DoKey2Glyph(keys) ==
    \E glyph_key \in keys :
        \E o \in {key2glyph(LOADED_KEYS, CHARMAPS, qapp, glyph_key)} :
            /\ LOADED_KEYS' = o.lk
            /\ CHARMAPS' = o.cm
            /\ ret' = Ret("key2glyph", glyph_key, "", o.exc, o.val)
            /\ UNCHANGED <<__instance, qapp, heap, label, hist>>

DoKey2Family(keys) ==
    \E key \in keys :
        \E o \in {_key2family(LOADED_KEYS, CHARMAPS, qapp, key)} :
            /\ LOADED_KEYS' = o.lk
            /\ CHARMAPS' = o.cm
            /\ ret' = Ret("_key2family", key, "", o.exc, o.val)
            /\ UNCHANGED <<__instance, qapp, heap, label, hist>>

DoFont(keys) ==
    \E font_prefix \in keys :
        \E o \in {font(LOADED_KEYS, CHARMAPS, qapp, font_prefix)} :
            /\ LOADED_KEYS' = o.lk
            /\ CHARMAPS' = o.cm
            /\ ret' = Ret("font", font_prefix, "", o.exc, o.val)
            /\ UNCHANGED <<__instance, qapp, heap, label, hist>>

DoSetTextIcon(keys) ==
    \E glyph_key \in keys, hasSetText \in BOOLEAN :
        \E o \in {setTextIcon(LOADED_KEYS, CHARMAPS, qapp, hasSetText, glyph_key)} :
            /\ LOADED_KEYS' = o.lk
            /\ CHARMAPS' = o.cm
            /\ ret' = Ret("setTextIcon", glyph_key, "", o.exc, o.val)
            /\ UNCHANGED <<__instance, qapp, heap, label, hist>>

\* the application makes its QApplication
DoQApplication ==
    /\ ~qapp
    /\ qapp' = TRUE
    /\ ret' = Ret("QApplication", <<>>, "", "none", <<>>)
    /\ UNCHANGED <<LOADED_KEYS, CHARMAPS, __instance, heap, label, hist>>

\* QFontIconStore.instance()
DoInstance ==
    /\ __instance' = TRUE
    /\ ret' = Ret("instance", <<>>, "", "none", <<>>)
    /\ UNCHANGED <<LOADED_KEYS, CHARMAPS, qapp, heap, label, hist>>

\* what the caller of icon(..., states=states) has passed for each pair
RECURSIVE PassedBy(_, _)
PassedBy(passed, states) ==
    IF states = <<>> THEN passed
    ELSE
        LET ks == StateKeySet(states[1].kw)
        IN  IF ks \notin DOMAIN _states THEN passed
            ELSE PassedBy([passed EXCEPT ![_states[ks]] = Some(states[1].options)],
                          Tail(states))

\* icon(): with keep, the caller holds on to the icon it is returned (and
\* lets go of the one it held)
DoIcon(keys, calls, stateses, keep) ==
    \E glyph_key \in keys, call \in calls, states \in stateses :
        \E o \in {icon(LOADED_KEYS, CHARMAPS, qapp, glyph_key, call, states)} :
            /\ LOADED_KEYS' = o.lk
            /\ CHARMAPS' = o.cm
            /\ ret' = [op |-> "icon", key |-> glyph_key, file |-> "", exc |-> o.exc,
                       val |-> <<>>, made |-> o.made, states |-> states]
            /\ heap' = IF keep /\ o.exc = "none" THEN o.val ELSE heap
            /\ hist' = IF ~keep \/ o.exc # "none" THEN hist
                       ELSE [NoHist EXCEPT
                               !.ctor = Some([f \in Fields |->
                                   IF f = "glyph_key" THEN Some(glyph_key)
                                   ELSE IF f \in call.given THEN call.val[f]
                                   ELSE SignatureDefaults[f]]),
                               !.passed = PassedBy(NoHist.passed, states),
                               !.lastSet = hist.lastSet]
            /\ UNCHANGED <<__instance, qapp, label>>


\* QFontIcon.addState(state, mode, **call) on the icon the caller holds
DoAddState(pairs, calls) ==
    \E pr \in pairs, call \in calls :
      LET state == pr[1]
          mode == pr[2]
      IN
        /\ "icon" \in heap.engines
        /\ hist.nAdd < MaxAddState
        /\ heap' = addState(heap, state, mode, call)
        /\ hist' = [hist EXCEPT !.passed[<<state, mode>>] = Some(call),
                                !.nAdd = @ + 1]
        /\ ret' = [op |-> "addState", exc |-> "none", state |-> state, mode |-> mode,
                   call |-> call]
        /\ UNCHANGED <<LOADED_KEYS, CHARMAPS, __instance, qapp, label>>

\* Qt paints engine e (paint, or pixmap, which calls paint)
DoPaint(pairs) ==
    \E e \in heap.engines, pr \in pairs :
        \E o \in {paint(heap, LOADED_KEYS, CHARMAPS, qapp, e, pr[2], pr[1])} :
            /\ LOADED_KEYS' = o.lk
            /\ CHARMAPS' = o.cm
            /\ heap' = o.H
            /\ ret' = [op |-> "paint", exc |-> o.exc, engine |-> e, state |-> pr[1],
                       mode |-> pr[2], drawn |-> o.drawn]
            /\ UNCHANGED <<__instance, qapp, label, hist>>

\* the options engine e holds for (state, mode), as _get_opts looks them
\* up, before any palette colour is filled in (Optional)
Resolve(H, e, state, mode) ==
    IF H._opts[e][state] # None /\ H.dicts[H._opts[e][state][1]][1][mode] # None
    THEN H.dicts[H._opts[e][state][1]][1][mode]
    ELSE H.default_opts[e]

\* Qt copies the icon: clone() of its engine
DoClone ==
    /\ "icon" \in heap.engines
    /\ heap' = clone(heap)
    /\ ret' = [op |-> "clone", exc |-> "none"]
    /\ UNCHANGED <<LOADED_KEYS, CHARMAPS, __instance, qapp, label, hist>>

\* the application makes its label
DoNewLabel ==
    \E args \in CtorArgs, size \in Sizes :
        /\ ret.op = "init"
        /\ label' = QElidingLabel(args, size[1], size[2])
        /\ hist' = [hist EXCEPT !.lastSet =
                       IF args # <<>> /\ args[1].isStr THEN args[1].val ELSE <<>>]
        /\ ret' = [op |-> "QElidingLabel", exc |-> "none", val |-> <<>>]
        /\ UNCHANGED <<LOADED_KEYS, CHARMAPS, __instance, qapp, heap>>

HasLabel == ret.op # "init"

DoSetText ==
    \E txt \in Texts :
        /\ HasLabel
        /\ label' = setText(label, txt)
        /\ hist' = [hist EXCEPT !.lastSet = txt]
        /\ ret' = [op |-> "setText", exc |-> "none", val |-> <<>>]
        /\ UNCHANGED <<LOADED_KEYS, CHARMAPS, __instance, qapp, heap>>

DoSetElideMode ==
    \E mode \in ElideModes :
        /\ HasLabel
        /\ label' = setElideMode(label, mode)
        /\ ret' = [op |-> "setElideMode", exc |-> "none", val |-> <<>>]
        /\ UNCHANGED <<LOADED_KEYS, CHARMAPS, __instance, qapp, heap, hist>>

DoSetWordWrap ==
    \E wrap \in BOOLEAN :
        /\ HasLabel
        /\ label' = setWordWrap(label, wrap)
        /\ ret' = [op |-> "setWordWrap", exc |-> "none", val |-> <<>>]
        /\ UNCHANGED <<LOADED_KEYS, CHARMAPS, __instance, qapp, heap, hist>>

DoResize ==
    \E size \in Sizes :
        /\ HasLabel
        /\ label' = resizeEvent(label, size)
        /\ ret' = [op |-> "resizeEvent", exc |-> "none", val |-> <<>>]
        /\ UNCHANGED <<LOADED_KEYS, CHARMAPS, __instance, qapp, heap, hist>>

DoFullText ==
    /\ HasLabel
    /\ ret' = [op |-> "fullText", exc |-> "none", val |-> fullText(label)]
    /\ UNCHANGED <<LOADED_KEYS, CHARMAPS, __instance, qapp, heap, label, hist>>

-----------------------------------------------------------------------------
(* The specifications.                                                     *)

\* the store, under every call of its interface
Next ==
    \/ DoAddFont(FontFiles, {PrefixF, PrefixP}, Charmaps)
    \/ DoClear
    \/ DoKey2Glyph(StoreKeys)
    \/ DoKey2Family(StoreKeys)
    \/ DoFont(StoreKeys)
    \/ DoSetTextIcon(StoreKeys)
    \/ DoIcon(StoreKeys, {Call({})}, {<<>>}, FALSE)
    \/ DoInstance
    \/ DoQApplication
Spec == Init /\ [][Next]_vars

\* glyph lookup: one prefix, with and without a charmap, every glyph part
NextGlyph ==
    \/ DoQApplication
    \/ DoAddFont({"a.ttf", "c.ttf"}, {PrefixF}, {NoCharmap, CmA, CmB})
    \/ DoClear
    \/ DoKey2Glyph(GlyphKeys)
SpecGlyph == Init /\ [][NextGlyph]_vars

\* icon(..., states={kw: options}) for every state key
NextStates ==
    \/ DoQApplication
    \/ DoAddFont({"a.ttf"}, {PrefixF}, {CmA})
    \/ /\ ret.op # "icon"
       /\ DoIcon({<<102, Dot, 97>>}, {Call({})},
                 {<<[kw |-> kw, options |-> Call({"color"})]>> : kw \in StateKeys},
                 TRUE)
SpecStates == Init /\ [][NextStates]_vars

\* one icon: its states, its rendering and its clone
IconPairs == {<<"Off", "Normal">>, <<"Off", "Disabled">>, <<"On", "Normal">>}
NextIcon ==
    \/ DoQApplication
    \/ DoAddFont({"a.ttf"}, {PrefixF}, {CmA})
    \/ DoIcon({<<102, Dot, 97>>}, {Call({}), Call({"scale_factor", "opacity"})},
              {<<>>}, TRUE)
    \/ DoAddState(IconPairs, {Call({"color"}), Call({"glyph_key", "animation"})})
    \/ DoPaint(IconPairs)
    \/ DoClone
SpecIcon == Init /\ [][NextIcon]_vars

\* one icon with glyph keys of its own per state, painted while fonts come
\* and go
NextRender ==
    \/ DoQApplication
    \/ DoAddFont({"a.ttf"}, {PrefixF}, {CmA})
    \/ DoClear
    \/ DoIcon({<<102, Dot, 97>>}, {Call({})},
              {<<>>, <<[kw |-> W_on, options |-> Call({"glyph_key"})]>>,
               <<[kw |-> W_on, options |-> CallUnknown({"glyph_key"})]>>}, TRUE)
    \/ DoAddState(IconPairs, {Call({"glyph_key"}), CallUnknown({"glyph_key"})})
    \/ DoPaint(IconPairs)
SpecRender == Init /\ [][NextRender]_vars

\* the eliding label
NextLabel ==
    \/ DoNewLabel
    \/ DoSetText
    \/ DoSetElideMode
    \/ DoSetWordWrap
    \/ DoResize
    \/ DoFullText
SpecLabel == Init /\ [][NextLabel]_vars

-----------------------------------------------------------------------------
(* The claims.                                                             *)

\* the per-state options engine e holds for a pair, None when it has none
Slot(H, e, pr) ==
    IF H._opts[e][pr[1]] # None THEN H.dicts[H._opts[e][pr[1]][1]][1][pr[2]]
    ELSE None

\* C1: icon(glyph_key) returns an icon only if the prefix of glyph_key is
\* registered when the call returns; when the prefix is neither registered
\* nor a plugin's, icon() raises ValueError, builds no icon and leaves
\* _LOADED_KEYS and _CHARMAPS as they were.
C1_IconNeedsPrefix ==
    [][ret'.op = "icon" =>
        /\ ret'.exc = "none" => SplitHead(ret'.key) \in DOMAIN LOADED_KEYS'
        /\ (SplitHead(ret'.key) \notin DOMAIN LOADED_KEYS
            /\ SplitHead(ret'.key) \notin PluginKeys)
           => /\ ret'.exc = "ValueError"
              /\ ~ret'.made
              /\ LOADED_KEYS' = LOADED_KEYS
              /\ CHARMAPS' = CHARMAPS]_vars

\* icon("x.a") has raised ValueError on a store that holds a font and a charmap
C1_Witness ==
    /\ ret.op = "icon"
    /\ ret.key = <<120, Dot, 97>>
    /\ ret.exc = "ValueError"
    /\ ~ret.made
    /\ DOMAIN LOADED_KEYS # {}
    /\ DOMAIN CHARMAPS # {}

\* C2: once addFont has registered a charmap for a (family, style), no
\* call but clear() changes the charmap of that pair.
C2_CharmapImmutable ==
    [][ret'.op # "clear" =>
        \A fs \in DOMAIN CHARMAPS :
            fs \in DOMAIN CHARMAPS' /\ CHARMAPS'[fs] = CHARMAPS[fs]]_vars

\* C3: clear() leaves _LOADED_KEYS and _CHARMAPS empty, and no other call,
\* returning or raising, removes or replaces an entry of _LOADED_KEYS.
C3_OnlyClearRemoves ==
    [][/\ ret'.op = "clear" => LOADED_KEYS' = EmptyMap /\ CHARMAPS' = EmptyMap
       /\ ret'.op # "clear" =>
            \A p \in DOMAIN LOADED_KEYS :
                p \in DOMAIN LOADED_KEYS' /\ LOADED_KEYS'[p] = LOADED_KEYS[p]]_vars

\* clear() has emptied a store that held two prefixes and a charmap
C3_Witness ==
    /\ ret.op = "clear"
    /\ ret.dropped = {PrefixF, PrefixP}
    /\ LOADED_KEYS = EmptyMap
    /\ CHARMAPS = EmptyMap

\* C7: addFont with a prefix that is in _LOADED_KEYS raises AssertionError
\* and changes neither map; an addFont that returns None changes neither.
C7_PrefixOnce ==
    [][ret'.op = "addFont" =>
        /\ ret'.key \in DOMAIN LOADED_KEYS =>
              /\ ret'.exc = "AssertionError"
              /\ LOADED_KEYS' = LOADED_KEYS
              /\ CHARMAPS' = CHARMAPS
        /\ (ret'.exc = "none" /\ ret'.val = <<>>) =>
              /\ LOADED_KEYS' = LOADED_KEYS
              /\ CHARMAPS' = CHARMAPS]_vars

\* addFont("a.ttf", "p", CmB) has been refused: "p" was loaded from its plugin
C7_Witness ==
    /\ ret.op = "addFont"
    /\ ret.key = PrefixP
    /\ ret.file = "a.ttf"
    /\ ret.charmap = CmB
    /\ ret.exc = "AssertionError"
    /\ PrefixP \in DOMAIN LOADED_KEYS
    /\ LOADED_KEYS[PrefixP] = <<"PL", "Regular">>
    /\ <<"FA", "Solid">> \notin DOMAIN CHARMAPS

-----------------------------------------------------------------------------
\* the words of a state key, in lower case, as a set
KeyWords(kw) == StateKeySet(kw)
OnOffWords == {W_on, W_off}
ModeWords == {W_normal, W_active, W_selected, W_disabled}

\* a combination of at most one of {on, off} and at most one of the four
\* modes, with at least one word
IsCombination(ws) ==
    /\ ws # {}
    /\ ws \subseteq OnOffWords \cup ModeWords
    /\ Cardinality(ws \cap OnOffWords) <= 1
    /\ Cardinality(ws \cap ModeWords) <= 1

\* the pair a combination names: no on/off is Off, no mode is Normal
NamedPair(ws) ==
    <<IF W_on \in ws THEN "On" ELSE "Off",
      IF W_active \in ws THEN "Active"
      ELSE IF W_selected \in ws THEN "Selected"
      ELSE IF W_disabled \in ws THEN "Disabled"
      ELSE "Normal">>

\* C4: in icon(key, states={kw: options}) with a valid glyph key, a kw that
\* is a combination of at most one of on/off and at most one mode gives its
\* options to exactly the pair it names (Off and Normal when left out), in
\* any order and case; for every other kw icon() raises ValueError and
\* returns no icon.
C4_StateKeys ==
    [][(ret'.op = "icon" /\ Len(ret'.states) = 1 /\ PrefixF \in DOMAIN LOADED_KEYS) =>
        IF IsCombination(KeyWords(ret'.states[1].kw))
        THEN /\ ret'.exc = "none"
             /\ \A pr \in Pairs :
                    Slot(heap', "icon", pr) # None
                        <=> pr = NamedPair(KeyWords(ret'.states[1].kw))
        ELSE /\ ret'.exc = "ValueError"
             /\ heap' = heap]_vars

\* icon("f.a", states={"Active_ON": ...}) has set (On, Active) and nothing else
C4_Witness ==
    /\ ret.op = "icon"
    /\ ret.exc = "none"
    /\ Len(ret.states) = 1
    /\ ret.states[1].kw = <<65, 99, 116, 105, 118, 101, Underscore, 79, 78>>
    /\ Slot(heap, "icon", <<"On", "Active">>) # None
    /\ Slot(heap, "icon", <<"On", "Active">>)[1].color = Some("red")

\* the value of field f the claim C5 expects the pair to render with
Expected(pr, f) ==
    IF hist.passed[pr] # None /\ f \in hist.passed[pr][1].given
    THEN hist.passed[pr][1].val[f]
    ELSE hist.ctor[1][f]

\* C5: for every pair and every field, the options the pair renders with
\* hold the value passed to the latest addState of the pair when the caller
\* passed one, else the value the icon was constructed with.  (A colour of
\* None is rendered with the palette: the colour is compared when the
\* expected one is explicit.)
C5_MergedAgainstDefaults ==
    "icon" \in heap.engines =>
        \A pr \in Pairs, f \in Fields :
            (f = "color" /\ Expected(pr, f) = None)
            \/ Resolve(heap, "icon", pr[1], pr[2])[1][f] = Expected(pr, f)

\* C9: painting changes no stored option: an icon with no explicit colour
\* is painted in mode m with the palette's colour for m, whatever was
\* painted before, and an addState made after paints inherits the fields
\* it would have inherited before them.
C9_PaintKeepsOptions ==
    /\ (ret.op = "paint" /\ ret.engine = "icon" /\ ret.exc = "none"
        /\ Expected(<<ret.state, ret.mode>>, "color") = None)
       => ret.drawn.color = Some(PaletteColor(role(ret.mode)))
    /\ (ret.op = "addState" /\ "color" \notin ret.call.given
        /\ hist.ctor[1].color = None)
       => Slot(heap, "icon", <<ret.state, ret.mode>>)[1].color = None

\* C10: a clone resolves every pair to the options the original resolves
\* it to when it is cloned, and an addState on the original leaves what the
\* clone resolves to as it was.
C10_CloneIndependent ==
    [][/\ ret'.op = "clone" =>
            \A pr \in Pairs :
                Resolve(heap', "clone", pr[1], pr[2])
                    = Resolve(heap', "icon", pr[1], pr[2])
       /\ (ret'.op = "addState" /\ "clone" \in heap.engines) =>
            \A pr \in Pairs :
                Resolve(heap', "clone", pr[1], pr[2])
                    = Resolve(heap, "clone", pr[1], pr[2])]_vars

GlyphPart(key) == SplitDot(key)[2]

\* a glyph part that is one character given by its code point, above 256
IsCodePoint(g) == Len(g) = 1 /\ g[1] > 256

\* the charmap's character for a name, its font key stripped
CharOf(charmap, name) == SplitLast(charmap[name])

\* C8: under a registered prefix, without a charmap key2glyph returns a
\* code-point character as it is and raises for every other glyph part;
\* with a charmap it resolves a name the charmap holds, as it is or
\* normalised to an identifier, to the charmap's character, and raises
\* ValueError for every name the charmap does not hold.  (Names are the
\* glyph parts that are not code-point characters.)
C8_GlyphLookup ==
    (ret.op = "key2glyph" /\ Len(SplitDot(ret.key)) = 2
     /\ SplitHead(ret.key) \in DOMAIN LOADED_KEYS) =>
        LET g == GlyphPart(ret.key)
            fs == LOADED_KEYS[SplitHead(ret.key)]
            id == _ensure_identifier(g)
        IN  IF fs \notin DOMAIN CHARMAPS
            THEN IF IsCodePoint(g) THEN ret.exc = "none" /\ ret.val[1] = g
                 ELSE ret.exc # "none"
            ELSE IF IsCodePoint(g) THEN TRUE
            ELSE IF g \in DOMAIN CHARMAPS[fs]
            THEN ret.exc = "none" /\ ret.val[1] = CharOf(CHARMAPS[fs], g)
            ELSE IF id.exc = "none" /\ id.val \in DOMAIN CHARMAPS[fs]
            THEN ret.exc = "none" /\ ret.val[1] = CharOf(CHARMAPS[fs], id.val)
            ELSE ret.exc = "ValueError"

\* the number of lines that fit in the label
Fit(L) == L.height \div LineHeight

\* the number of wrapped lines C11 leaves whole: one less than fit, and
\* none when no line or one line fits
WholeLines(L) == IF Fit(L) >= 1 THEN Fit(L) - 1 ELSE 0

\* C11: in word-wrap mode the label displays the first n wrapped lines of
\* the full text whole, then the elision to width - 2 of the remaining
\* wrapped lines joined, n + 1 being the number of lines that fit; n is
\* never negative, whatever the height, so the lines displayed are never
\* more than n whole ones and the elided one.
C11_WrapElides ==
    (HasLabel /\ label.wordWrap) =>
        /\ Len(_elidedLines(label, label.width - 2)) <= WholeLines(label) + 1
        /\ label.text =
              join(SliceTo(_wrappedText(label), WholeLines(label)))
              \o elidedText(join(SliceFrom(_wrappedText(label), WholeLines(label))),
                            label._elide_mode, label.width - 2)

\* C12: painting any (state, mode) pair of an icon that icon() returned
\* finds the font and the glyph of the glyph key in effect for the pair
\* (the icon's own, or one given through states= or addState), as long as
\* clear() has not been called since the icon was made.
C12_GlyphsResolve ==
    (ret.op = "paint" /\ ret.engine = "icon" /\ ~hist.cleared) =>
        /\ ret.exc = "none"
        /\ ret.drawn.char # <<>>

=============================================================================
